---------------------------- MODULE Spec2Model ----------------------------
(***************************************************************************)
(* Model of service_crategen's code generator                              *)
(* (src/service_crategen/src/commands/generate/codegen/mod.rs).            *)
(*                                                                         *)
(* A string of the program is a sequence of tokens.  Every schema name     *)
(* (shape, member, type, field name) is spelled one character per token,   *)
(* so that the sanitizers act on characters as the code does.  Fixed       *)
(* fragments of type expressions that hold a character no identifier can   *)
(* hold ("Vec<", ">", "&'a str", ...) are one token each.                   *)
(*                                                                         *)
(* Option<T> is a sequence of length 0 (None) or 1 (Some(x)).              *)
(***************************************************************************)
EXTENDS Integers, Sequences, FiniteSets, TLC

VARIABLES
    service,             \* the Service handed to generate_source (read-only)
    type_filter,         \* filter_types(service): [serialized, deserialized]
    pc,                  \* position of the run inside generate_source/generate
    protocol_generator,  \* P chosen by generate_source
    error_type_generator,\* E chosen by generate_source
    sink,                \* the writer: sequence of the pieces written so far
    idx,                 \* generate_types: index of the next shape to visit
    memo                 \* the Memo handed to the last generate_struct call

vars == <<service, type_filter, pc, protocol_generator, error_type_generator,
          sink, idx, memo>>

-----------------------------------------------------------------------------
(* Option<T> *)

None == <<>>

Some(x) == <<x>>

IsSome(o) == Len(o) = 1

IsNone(o) == Len(o) = 0

Unwrap(o) == o[1]

\* `let v = value; body(v)`: the value is computed once, however often the
\* body reads it.
Let(value, body(_)) == CHOOSE result \in {body(v) : v \in {value}} : TRUE

-----------------------------------------------------------------------------
(* Characters *)

LowerChars == <<"a","b","c","d","e","f","g","h","i","j","k","l","m",
                "n","o","p","q","r","s","t","u","v","w","x","y","z">>

UpperChars == <<"A","B","C","D","E","F","G","H","I","J","K","L","M",
                "N","O","P","Q","R","S","T","U","V","W","X","Y","Z">>

IsLower(c) == \E i \in DOMAIN LowerChars : LowerChars[i] = c

IsUpper(c) == \E i \in DOMAIN UpperChars : UpperChars[i] = c

ToUpper(c) ==
    IF IsLower(c)
    THEN UpperChars[CHOOSE i \in DOMAIN LowerChars : LowerChars[i] = c]
    ELSE c

ToLower(c) ==
    IF IsUpper(c)
    THEN LowerChars[CHOOSE i \in DOMAIN UpperChars : UpperChars[i] = c]
    ELSE c

-----------------------------------------------------------------------------
(* String literals of the program *)

STR_return == <<"r","e","t","u","r","n">>

STR_type == <<"t","y","p","e">>

STR_aws_ == <<"a","w","s","_">>

STR_Error == <<"E","r","r","o","r">>

STR_S3Error == <<"S","3","E","r","r","o","r">>

STR_CancelSpotFleetRequests ==
    <<"C","a","n","c","e","l","S","p","o","t","F","l","e","e","t",
      "R","e","q","u","e","s","t","s">>

STR_EC2CancelSpotFleetRequests == <<"E","C","2">> \o STR_CancelSpotFleetRequests

STR_Option == <<"O","p","t","i","o","n">>

STR_RDSOption == <<"R","D","S">> \o STR_Option

STR_String == <<"S","t","r","i","n","g">>

STR_Streaming == <<"S","t","r","e","a","m","i","n","g">>

-----------------------------------------------------------------------------
(* Identifier sanitizers *)

\* util::capitalize_first: the first character upper-cased, the rest kept.
capitalize_first(s) ==
    IF Len(s) = 0 THEN s ELSE <<ToUpper(Head(s))>> \o Tail(s)

\* str::replace("_", "")
without_underscores(s) == SelectSeq(s, LAMBDA c : c # "_")

mutate_type_name(type_name) ==
    LET stripped == without_underscores(capitalize_first(type_name))
    IN  CASE stripped = STR_Error -> STR_S3Error
          [] stripped = STR_CancelSpotFleetRequests -> STR_EC2CancelSpotFleetRequests
          [] stripped = STR_Option -> STR_RDSOption
          [] OTHER -> stripped

mutate_type_name_for_streaming(type_name) == STR_Streaming \o type_name

\* Inflector's to_snake_case on identifiers made of letters and underscores:
\* every letter is lower-cased, and an upper-case letter that follows a
\* lower-case letter starts a new word, separated by "_".
RECURSIVE snake_from(_, _)
snake_from(s, i) ==
    IF i > Len(s) THEN <<>>
    ELSE (IF i > 1 /\ IsUpper(s[i]) /\ IsLower(s[i - 1])
          THEN <<"_", ToLower(s[i])>>
          ELSE <<ToLower(s[i])>>) \o snake_from(s, i + 1)

to_snake_case(s) == snake_from(s, 1)

generate_field_name(member_name) ==
    LET name == to_snake_case(member_name)
    IN  IF name = STR_return \/ name = STR_type
        THEN name \o <<"_">>
        ELSE name

-----------------------------------------------------------------------------
(* The Service model: accessors used by the generator *)

\* Service::get_shape: the shape stored under `name`, if any.
get_shape(svc, name) ==
    LET hits == {i \in DOMAIN svc.shapes : svc.shapes[i].name = name}
    IN  IF hits = {} THEN None
        ELSE Some(svc.shapes[CHOOSE i \in hits : TRUE].shape)

\* Shape::member_type / key_type / value_type
member_type(shape) == Unwrap(shape.member).shape

key_type(shape) == Unwrap(shape.key).shape

value_type(shape) == Unwrap(shape.value).shape

\* Member::streaming(): the flag, false when absent
streaming(member) == IsSome(member.streaming) /\ Unwrap(member.streaming)

\* Shape::required(name): whether the required list names the member
required(shape, member_name) ==
    IsSome(shape.required) /\ member_name \in Unwrap(shape.required)

-----------------------------------------------------------------------------
(* Ownership resolver *)

Owned == "Owned"

Borrowed == "Borrowed"

\* The two ways a resolution ends without a classification: the recursion
\* exhausts the stack, or an unwrap() of a shape lookup finds None.
StackOverflow == "StackOverflow"

Panic == "Panic"

Aborts == {StackOverflow, Panic}

\* The stack holds more frames than any resolution over an acyclic shape
\* graph needs (every shape is entered at most once per path, by at most
\* three frames), and no more.
StackLimit(svc) == 2 * Len(svc.shapes) + 2

RECURSIVE get_shape_ownership(_, _, _)
RECURSIVE get_member_ownership(_, _, _)
RECURSIVE members_ownership(_, _, _, _)

\* get_shape_ownership, lines 252-259: the loop over shape.members, from the
\* i-th member on.  Owned when no member is Borrowed.
members_ownership(svc, members, i, d) ==
    IF i > Len(members) THEN Owned
    ELSE Let(get_member_ownership(svc, members[i].member, d + 1),
             LAMBDA member_ownership :
                 IF member_ownership = Owned
                 THEN members_ownership(svc, members, i + 1, d)
                 ELSE member_ownership)

\* d is the depth of the call stack at which this call runs.
get_shape_ownership(svc, shape, d) ==
    IF d > StackLimit(svc) THEN StackOverflow
    ELSE Let(IF IsSome(shape.members)
             THEN members_ownership(svc, Unwrap(shape.members), 1, d)
             ELSE Owned,
             LAMBDA from_members :
                 IF from_members # Owned THEN from_members
                 ELSE IF IsSome(shape.member)
                      THEN get_member_ownership(svc, Unwrap(shape.member), d + 1)
                      ELSE Owned)

\* The `.unwrap()` of a shape lookup followed by get_shape_ownership.
shape_ownership_of(svc, name, d) ==
    IF IsNone(get_shape(svc, name)) THEN Panic
    ELSE get_shape_ownership(svc, Unwrap(get_shape(svc, name)), d)

get_member_ownership(svc, member, d) ==
    IF d > StackLimit(svc) THEN StackOverflow
    ELSE IF IsNone(get_shape(svc, member.shape)) THEN Owned
    ELSE LET member_shape == Unwrap(get_shape(svc, member.shape))
         IN  CASE member_shape.shape_type = "String" -> Borrowed
               [] member_shape.shape_type = "Map" ->
                    IF IsNone(member_shape.key) \/ IsNone(member_shape.value)
                    THEN Panic
                    ELSE Let(shape_ownership_of(svc, key_type(member_shape), d + 1),
                             LAMBDA key_ownership :
                               IF key_ownership \in Aborts THEN key_ownership
                               ELSE Let(shape_ownership_of(svc, value_type(member_shape),
                                                           d + 1),
                                        LAMBDA value_ownership :
                                          IF value_ownership \in Aborts
                                          THEN value_ownership
                                          ELSE IF key_ownership = Borrowed
                                                  \/ value_ownership = Borrowed
                                          THEN Borrowed
                                          ELSE Owned))
               [] member_shape.shape_type = "List" ->
                    IF IsNone(member_shape.member) THEN Panic
                    ELSE shape_ownership_of(svc, member_type(member_shape), d + 1)
               [] member_shape.shape_type = "Structure" ->
                    get_shape_ownership(svc, member_shape, d + 1)
               [] OTHER -> Owned


-----------------------------------------------------------------------------
(* get_rust_type *)

Resolved(type, ownership) == [type |-> type, ownership |-> ownership]

\* A resolution that ended without a type: ownership holds the reason.
Aborted(reason) == [type |-> <<>>, ownership |-> reason]

\* map_ownership with the value's classification ignored.
map_ownership_key_only(key_ownership, value_ownership) == key_ownership

\* Line 233: aggregate_ownership of a Map.
map_ownership(key_ownership, value_ownership) ==
    IF key_ownership = Borrowed THEN Borrowed ELSE value_ownership

\* Lines 242-243: the type of a reference to a structure.
structure_type(shape_name, structure_ownership) ==
    mutate_type_name(shape_name)
        \o (IF structure_ownership = Borrowed THEN <<"<'a>">> ELSE <<>>)

RECURSIVE get_rust_type(_, _, _, _, _, _, _)

\* Lines 217-224: the ownership a List reports, given its element shape.
list_ownership(svc, element_shape, d) == get_shape_ownership(svc, element_shape, d + 1)

\* `m` is the Memo, which no line of the resolver reads or writes; `d` is the
\* depth of the call stack at which this call runs.
get_rust_type(m, svc, shape_name, shape, is_streaming, for_timestamps, d) ==
    IF d > StackLimit(svc) THEN Aborted(StackOverflow)
    ELSE IF is_streaming
    THEN Resolved(mutate_type_name_for_streaming(shape_name), Owned)
    ELSE CASE shape.shape_type = "Blob" -> Resolved(<<"Vec<u8>">>, Owned)
           [] shape.shape_type = "Boolean" -> Resolved(<<"bool">>, Owned)
           [] shape.shape_type = "Double" -> Resolved(<<"f64">>, Owned)
           [] shape.shape_type = "Float" -> Resolved(<<"f32">>, Owned)
           [] shape.shape_type \in {"Integer", "Long"} -> Resolved(<<"i64">>, Owned)
           [] shape.shape_type = "String" -> Resolved(<<"&'a str">>, Borrowed)
           [] shape.shape_type = "Timestamp" -> Resolved(for_timestamps, Owned)
           [] shape.shape_type = "List" ->
                IF IsNone(shape.member) \/ IsNone(get_shape(svc, member_type(shape)))
                THEN Aborted(Panic)
                ELSE LET element == Unwrap(get_shape(svc, member_type(shape)))
                     IN  Let(get_rust_type(m, svc, member_type(shape), element,
                                           FALSE, for_timestamps, d + 1),
                             LAMBDA list :
                               IF list.ownership \in Aborts THEN list
                               ELSE Let(list_ownership(svc, element, d),
                                        LAMBDA ownership :
                                          IF ownership \in Aborts
                                          THEN Aborted(ownership)
                                          ELSE Resolved(<<"Vec<">> \o list.type
                                                            \o <<">">>,
                                                        ownership)))
           [] shape.shape_type = "Map" ->
                IF IsNone(shape.key) \/ IsNone(get_shape(svc, key_type(shape)))
                THEN Aborted(Panic)
                ELSE Let(get_rust_type(m, svc, key_type(shape),
                                       Unwrap(get_shape(svc, key_type(shape))),
                                       FALSE, for_timestamps, d + 1),
                         LAMBDA key :
                           IF key.ownership \in Aborts THEN key
                           ELSE IF IsNone(shape.value)
                                   \/ IsNone(get_shape(svc, value_type(shape)))
                           THEN Aborted(Panic)
                           ELSE Let(get_rust_type(m, svc, value_type(shape),
                                        Unwrap(get_shape(svc, value_type(shape))),
                                        FALSE, for_timestamps, d + 1),
                                    LAMBDA value :
                                      IF value.ownership \in Aborts THEN value
                                      ELSE Resolved(<<"::std::collections::HashMap<">>
                                                        \o key.type \o <<", ">>
                                                        \o value.type \o <<">">>,
                                                    map_ownership(key.ownership,
                                                                  value.ownership))))
           [] shape.shape_type = "Structure" ->
                Let(get_shape_ownership(svc, shape, d + 1),
                    LAMBDA structure_ownership :
                      IF structure_ownership \in Aborts
                      THEN Aborted(structure_ownership)
                      ELSE Resolved(structure_type(shape_name, structure_ownership),
                                    structure_ownership))

-----------------------------------------------------------------------------
(* Shape predicates of the type emitter *)

has_streaming_member(name, shape) ==
    /\ shape.shape_type = "Structure"
    /\ IsSome(shape.members)
    /\ \E i \in DOMAIN Unwrap(shape.members) :
          /\ Unwrap(shape.members)[i].member.shape = name
          /\ streaming(Unwrap(shape.members)[i].member)

is_streaming_shape(svc, name) ==
    \E i \in DOMAIN svc.shapes : has_streaming_member(name, svc.shapes[i].shape)

is_input_shape(svc, name) ==
    \E i \in DOMAIN svc.operations :
        /\ IsSome(svc.operations[i].input)
        /\ Unwrap(svc.operations[i].input).shape = name


-----------------------------------------------------------------------------
(* Protocol backends (trait GenerateProtocol) *)

ProtocolGenerators ==
    {"JsonGenerator", "QueryGenerator", "RestJsonGenerator", "RestXmlGenerator"}

ErrorTypeGenerators == {"JsonErrorTypes", "XmlErrorTypes"}

\* GenerateProtocol::timestamp_type
timestamp_type(generator) ==
    IF generator \in {"JsonGenerator", "RestJsonGenerator"}
    THEN <<"f64">> ELSE <<"String">>

\* GenerateProtocol::generate_struct_attributes: the derives of a struct; the
\* JSON backends derive the serde traits a reachable type needs.
generate_struct_attributes(generator, serialized, deserialized) ==
    <<"Default", "Debug", "Clone">>
        \o (IF generator \in {"JsonGenerator", "RestJsonGenerator"} /\ serialized
            THEN <<"Serialize">> ELSE <<>>)
        \o (IF generator \in {"JsonGenerator", "RestJsonGenerator"} /\ deserialized
            THEN <<"Deserialize">> ELSE <<>>)

\* GenerateProtocol::generate_deserializer / generate_serializer: None by
\* default (lines 48-63); the XML backends override both.
generate_deserializer(generator, name, shape, svc) ==
    IF generator \in {"QueryGenerator", "RestXmlGenerator"}
    THEN Some([kind |-> "deserializer", name |-> name])
    ELSE None

generate_serializer(generator, name, shape, svc) ==
    IF generator \in {"QueryGenerator", "RestXmlGenerator"}
    THEN Some([kind |-> "serializer", name |-> name])
    ELSE None

-----------------------------------------------------------------------------
(* generate_struct_fields and generate_struct *)

\* Lines 490-492: members the closure drops.
is_deprecated(member) == member.deprecated = Some(TRUE)

\* Line 530: whether the member is resolved as a stream occurrence.
is_stream_field(svc, member, shape_name) ==
    streaming(member) /\ ~is_input_shape(svc, shape_name)

\* Lines 496-522: documentation and serde attribute lines of a field.
field_attributes(svc, shape, member_name, member, serde_attrs) ==
    (IF IsSome(member.documentation) THEN <<"doc">> ELSE <<>>)
    \o (IF ~serde_attrs THEN <<>>
        ELSE <<"rename">>
             \o (IF IsNone(get_shape(svc, member.shape)) THEN <<>>
                 ELSE LET shape_type == Unwrap(get_shape(svc, member.shape)).shape_type
                      IN  (IF shape_type = "Blob" THEN <<"blob">>
                           ELSE IF ~required(shape, member_name)
                           THEN <<"skip_serializing_if">>
                           ELSE <<>>)
                          \o (IF shape_type = "String" THEN <<"borrow">> ELSE <<>>)))

\* field_line with the test of the required set inverted.
field_line_inverted(shape, member_name, rs_type) ==
    LET name == generate_field_name(member_name)
    IN  IF ~required(shape, member_name)
        THEN [name |-> name, optional |-> FALSE, type |-> rs_type]
        ELSE [name |-> name, optional |-> TRUE, type |-> rs_type]

\* Lines 535-543: the declaration line of a field.
field_line(shape, member_name, rs_type) ==
    LET name == generate_field_name(member_name)
    IN  IF required(shape, member_name)
        THEN [name |-> name, optional |-> FALSE, type |-> rs_type]
        ELSE IF name = STR_type
        THEN [name |-> STR_aws_ \o name, optional |-> TRUE, type |-> rs_type]
        ELSE [name |-> name, optional |-> TRUE, type |-> rs_type]

RECURSIVE struct_fields_from(_, _, _, _, _, _, _)

\* The filter_map of generate_struct_fields from the i-th member on: the
\* fields emitted and the ownership the closure has accumulated.
struct_fields_from(m, svc, shape, shape_name, serde_attrs, generator, i) ==
    LET members == Unwrap(shape.members)
    IN  IF i > Len(members) THEN [fields |-> <<>>, ownership |-> Owned]
        ELSE IF is_deprecated(members[i].member)
        THEN struct_fields_from(m, svc, shape, shape_name, serde_attrs, generator, i + 1)
        ELSE IF IsNone(get_shape(svc, members[i].member.shape))
        THEN [fields |-> <<>>, ownership |-> Panic]
        ELSE LET member == members[i].member
             IN  Let(get_rust_type(m, svc, member.shape,
                                   Unwrap(get_shape(svc, member.shape)),
                                   is_stream_field(svc, member, shape_name),
                                   timestamp_type(generator), 1),
                     LAMBDA rs :
                       IF rs.ownership \in Aborts
                       THEN [fields |-> <<>>, ownership |-> rs.ownership]
                       ELSE Let(struct_fields_from(m, svc, shape, shape_name,
                                                   serde_attrs, generator, i + 1),
                                LAMBDA rest :
                                  IF rest.ownership \in Aborts THEN rest
                                  ELSE [fields |->
                                            <<[attributes |->
                                                 field_attributes(svc, shape,
                                                     members[i].name, member,
                                                     serde_attrs)]
                                              @@ field_line(shape, members[i].name,
                                                            rs.type)>>
                                            \o rest.fields,
                                        ownership |-> IF rs.ownership = Borrowed
                                                      THEN Borrowed
                                                      ELSE rest.ownership]))

generate_struct_fields(m, svc, shape, shape_name, serde_attrs, generator) ==
    struct_fields_from(m, svc, shape, shape_name, serde_attrs, generator, 1)

\* Line 451: the structures generate_struct emits as `pub struct Name;`.
is_unit_struct(shape) ==
    IsNone(shape.members) \/ Len(Unwrap(shape.members)) = 0

\* The text generate_struct returns, as a record; kind "abort" when the
\* resolution of a member did not return.
generate_struct(m, svc, name, shape, serialized, deserialized, generator) ==
    LET struct_attributes == generate_struct_attributes(generator, serialized, deserialized)
    IN  IF is_unit_struct(shape)
        THEN [kind |-> "struct", attributes |-> struct_attributes, name |-> name,
              form |-> "unit", lifetime |-> <<>>, fields |-> <<>>]
        ELSE LET need_serde_attrs ==
                     \E k \in DOMAIN struct_attributes :
                         struct_attributes[k] \in {"Serialize", "Deserialize"}
             IN  Let(generate_struct_fields(m, svc, shape, name,
                                            need_serde_attrs, generator),
                     LAMBDA generated :
                       IF generated.ownership \in Aborts
                       THEN [kind |-> "abort", reason |-> generated.ownership]
                       ELSE [kind |-> "struct", attributes |-> struct_attributes,
                             name |-> name, form |-> "fields",
                             lifetime |-> IF generated.ownership = Owned
                                          THEN <<>> ELSE <<"<'a>">>,
                             fields |-> generated.fields])


-----------------------------------------------------------------------------
(* generate_types: what one iteration of the loop over the shapes writes *)

\* Lines 356-435 for one (name, shape) of service.shapes(): the pieces written,
\* in order, and the reason the iteration died, if it did.
shape_items(m, svc, filter, generator, entry) ==
    LET name == entry.name
        shape == entry.shape
        type_name == mutate_type_name(name)
        deserialized == type_name \in filter.deserialized
        serialized == type_name \in filter.serialized
        is_structure == shape.shape_type = "Structure"
        doc == IF is_structure /\ IsSome(shape.documentation)
               THEN <<[kind |-> "doc", name |-> type_name]>> ELSE <<>>
        emits_struct == is_structure /\ type_name # STR_String
        wrapper == IF is_streaming_shape(svc, name)
                   THEN <<[kind |-> "streaming_wrapper",
                           name |-> mutate_type_name_for_streaming(type_name),
                           debug_name |-> type_name]>>
                   ELSE <<>>
        deserializer == IF deserialized
                        THEN generate_deserializer(generator, type_name, shape, svc)
                        ELSE None
        serializer == IF serialized
                      THEN generate_serializer(generator, type_name, shape, svc)
                      ELSE None
    IN  IF shape.exception THEN [items |-> <<>>, abort |-> None]
        ELSE IF ~emits_struct
        THEN [items |-> doc \o wrapper \o deserializer \o serializer,
              abort |-> None]
        ELSE Let(generate_struct(m, svc, type_name, shape, serialized,
                                 deserialized, generator),
                 LAMBDA generated :
                   IF generated.kind = "abort"
                   THEN [items |-> doc, abort |-> Some(generated.reason)]
                   ELSE [items |-> doc \o <<generated>> \o wrapper
                                       \o deserializer \o serializer,
                         abort |-> None])

-----------------------------------------------------------------------------
(* generate_source: the choice of the two backends *)

\* select_generators with the REST+JSON arm paired with the XML error types.
select_generators_mispaired(protocol) ==
    CASE protocol \in {"json", "rest-json"} ->
            Some([protocol_generator |-> IF protocol = "json" THEN "JsonGenerator"
                                         ELSE "RestJsonGenerator",
                  error_type_generator |-> IF protocol = "json" THEN "JsonErrorTypes"
                                           ELSE "XmlErrorTypes"])
      [] protocol \in {"query", "ec2"} ->
            Some([protocol_generator |-> "QueryGenerator",
                  error_type_generator |-> "XmlErrorTypes"])
      [] protocol = "rest-xml" ->
            Some([protocol_generator |-> "RestXmlGenerator",
                  error_type_generator |-> "XmlErrorTypes"])
      [] OTHER -> None

\* Lines 73-79: the match on service.protocol(); None is the panic! arm.
select_generators(protocol) ==
    CASE protocol = "json" ->
            Some([protocol_generator |-> "JsonGenerator",
                  error_type_generator |-> "JsonErrorTypes"])
      [] protocol \in {"query", "ec2"} ->
            Some([protocol_generator |-> "QueryGenerator",
                  error_type_generator |-> "XmlErrorTypes"])
      [] protocol = "rest-json" ->
            Some([protocol_generator |-> "RestJsonGenerator",
                  error_type_generator |-> "JsonErrorTypes"])
      [] protocol = "rest-xml" ->
            Some([protocol_generator |-> "RestXmlGenerator",
                  error_type_generator |-> "XmlErrorTypes"])
      [] OTHER -> None


-----------------------------------------------------------------------------
(* The inputs of a run: services, with the answer of filter_types for each *)

\* The largest number of members of the structures of StructInputs.
MaxMembers == 2

NewShape(shape_type) ==
    [shape_type |-> shape_type, members |-> None, member |-> None,
     key |-> None, value |-> None, required |-> None, exception |-> FALSE,
     documentation |-> None]

NewMember(shape_name) ==
    [shape |-> shape_name, deprecated |-> None, streaming |-> None,
     documentation |-> None]

ListOf(element) == [NewShape("List") EXCEPT !.member = Some(NewMember(element))]

MapOf(k, v) ==
    [NewShape("Map") EXCEPT !.key = Some(NewMember(k)), !.value = Some(NewMember(v))]

StructureOf(members, required_names) ==
    [NewShape("Structure") EXCEPT !.members = Some(members),
                                  !.required = Some(required_names)]

Entry(name, shape) == [name |-> name, shape |-> shape]

MemberEntry(name, member) == [name |-> name, member |-> member]

NoFilter == [serialized |-> {}, deserialized |-> {}]

Input(svc, filter) == [service |-> svc, type_filter |-> filter]

N_Bin == <<"B","i","n">>
N_Body == <<"B","o","d","y">>
N_Dbl == <<"D","b","l">>
N_Error == <<"E","r","r","o","r">>
N_Fault == <<"F","a","u","l","t">>
N_Flag == <<"F","l","a","g">>
N_Flt == <<"F","l","t">>
N_Int == <<"I","n","t">>
N_Items == <<"I","t","e","m","s">>
N_Lng == <<"L","n","g">>
N_Lst == <<"L","s","t">>
N_Map == <<"M","a","p">>
N_Name == <<"N","a","m","e">>
N_Names == <<"N","a","m","e","s">>
N_Next == <<"N","e","x","t">>
N_Old == <<"O","l","d">>
N_Prims == <<"P","r","i","m","s">>
N_Rec == <<"R","e","c">>
N_Req == <<"R","e","q">>
N_Return == <<"R","e","t","u","r","n">>
N_Size == <<"S","i","z","e">>
N_Str == <<"S","t","r">>
N_Sub == <<"S","u","b">>
N_Tags == <<"T","a","g","s">>
N_Text == <<"T","e","x","t">>
N_Type == <<"T","y","p","e">>
N_When == <<"W","h","e","n">>
N_body == <<"b","o","d","y">>
N_put_req == <<"p","u","t","_","r","e","q">>
N_req == <<"r","e","q">>

\* Shape graphs: a list, a list of leaves, a map and a one-member structure
\* over a String and an Integer leaf, every reference drawn freely (cycles
\* through the structure included).  Shapes are in the order of their names.
GraphInputs ==
    { Input([protocol |-> "query",
             shapes |-> << Entry(N_Int, NewShape("Integer")),
                           Entry(N_Lst, ListOf(l1)),
                           Entry(N_Map, MapOf(k, v)),
                           Entry(N_Rec, StructureOf(<<MemberEntry(N_Name, NewMember(a))>>,
                                                    {})),
                           Entry(N_Str, NewShape("String")),
                           Entry(N_Sub, ListOf(l2)) >>,
             operations |-> << [input |-> None] >>],
            NoFilter) :
        l1 \in {N_Str, N_Int, N_Sub, N_Map, N_Rec},
        l2 \in {N_Str, N_Int},
        k \in {N_Str, N_Int, N_Rec},
        v \in {N_Str, N_Int, N_Sub, N_Rec},
        a \in {N_Str, N_Int, N_Lst, N_Sub, N_Map, N_Rec} }


\* The members a structure of StructInputs draws from, in the order of their
\* names; `self` is the name of the structure itself.
MemberPool(self) ==
    << [name |-> N_Body, required |-> FALSE,
        member |-> [NewMember(N_body) EXCEPT !.streaming = Some(TRUE)]],
       [name |-> N_Items, required |-> FALSE, member |-> NewMember(N_Names)],
       [name |-> N_Name, required |-> TRUE,
        member |-> [NewMember(N_Str) EXCEPT !.documentation = Some("doc")]],
       [name |-> N_Next, required |-> FALSE, member |-> NewMember(self)],
       [name |-> N_Old, required |-> FALSE,
        member |-> [NewMember(N_Str) EXCEPT !.deprecated = Some(TRUE)]],
       [name |-> N_Return, required |-> TRUE, member |-> NewMember(N_Int)],
       [name |-> N_Size, required |-> FALSE,
        member |-> [NewMember(N_Int) EXCEPT !.deprecated = Some(FALSE)]],
       [name |-> N_Tags, required |-> FALSE, member |-> NewMember(N_Tags)],
       [name |-> N_Text, required |-> FALSE,
        member |-> [NewMember(N_Str) EXCEPT !.streaming = Some(TRUE)]],
       [name |-> N_Type, required |-> FALSE, member |-> NewMember(N_Str)] >>

\* The structure whose members are the pool's members at the positions
\* `chosen`, in the pool's order.
PoolStructure(self, chosen) ==
    LET pool == MemberPool(self)
        picked == SelectSeq([i \in DOMAIN pool |-> [pool[i] EXCEPT !.required = <<i, @>>]],
                            LAMBDA e : e.required[1] \in chosen)
    IN  StructureOf([i \in DOMAIN picked |->
                        MemberEntry(picked[i].name, picked[i].member)],
                    {picked[i].name : i \in {j \in DOMAIN picked : picked[j].required[2]}})

\* The shapes of a service of StructInputs, in the order of their names
\* (upper-case letters sort before "_" and lower-case letters).
StructShapes(self, structure) ==
    LET upper == << Entry(N_Int, NewShape("Integer")),
                    Entry(N_Names, ListOf(N_Str)),
                    Entry(N_Str, NewShape("String")),
                    Entry(N_Tags, MapOf(N_Str, N_Str)) >>
        lower == << Entry(N_body, NewShape("Blob")) >>
        this == << Entry(self, structure) >>
    IN  CASE self = N_Error -> this \o upper \o lower
          [] self = N_Req -> SubSeq(upper, 1, 2) \o this \o SubSeq(upper, 3, 4) \o lower
          [] OTHER -> upper \o lower \o this

\* The names of the structure of StructInputs: two that the type-name
\* sanitizer keeps, one it remaps, and two it rewrites.
StructNames == {N_Req, N_Error, N_put_req, N_req}

\* The structure `self`, with no member collection or with at most MaxMembers
\* members of the pool, as the input of an operation or not.
StructInputsOf(self) ==
    { Input([protocol |-> "rest-json",
             shapes |-> StructShapes(self, structure),
             operations |-> << [input |-> IF is_input
                                          THEN Some([shape |-> self]) ELSE None] >>],
            [serialized |-> IF is_input THEN {mutate_type_name(self)} ELSE {},
             deserialized |-> IF is_input THEN {} ELSE {mutate_type_name(self)}]) :
        is_input \in BOOLEAN,
        structure \in {NewShape("Structure")}
                      \cup {PoolStructure(self, chosen) :
                              chosen \in {c \in SUBSET (1..10) : Cardinality(c) <= MaxMembers}} }

StructInputs == UNION {StructInputsOf(self) : self \in StructNames}

\* One service with a member of every primitive kind, an exception shape and a
\* structure named String, under every protocol tag and every answer of the
\* type filter that takes all of its types or none.
ProtocolTags == {"json", "query", "ec2", "rest-json", "rest-xml", "soap", ""}

PrimShapes ==
    << Entry(N_Bin, NewShape("Blob")),
       Entry(N_Dbl, NewShape("Double")),
       Entry(N_Fault, [StructureOf(<<MemberEntry(N_Name, NewMember(N_Str))>>, {})
                          EXCEPT !.exception = TRUE]),
       Entry(N_Flag, NewShape("Boolean")),
       Entry(N_Flt, NewShape("Float")),
       Entry(N_Int, NewShape("Integer")),
       Entry(N_Lng, NewShape("Long")),
       Entry(N_Prims,
             [StructureOf(<< MemberEntry(N_Bin, NewMember(N_Bin)),
                             MemberEntry(N_Dbl, NewMember(N_Dbl)),
                             MemberEntry(N_Flag, NewMember(N_Flag)),
                             MemberEntry(N_Flt, NewMember(N_Flt)),
                             MemberEntry(N_Int, NewMember(N_Int)),
                             MemberEntry(N_Lng, NewMember(N_Lng)),
                             MemberEntry(N_Str, NewMember(N_Str)),
                             MemberEntry(N_When, NewMember(N_When)) >>,
                          {N_Int})
                 EXCEPT !.documentation = Some("doc")]),
       Entry(N_Str, NewShape("String")),
       Entry(STR_String, [NewShape("Structure") EXCEPT !.documentation = Some("doc")]),
       Entry(N_When, NewShape("Timestamp")) >>

ProtocolInputs ==
    { Input([protocol |-> tag,
             shapes |-> PrimShapes,
             operations |-> << [input |-> Some([shape |-> N_Prims])] >>],
            [serialized |-> ser, deserialized |-> de]) :
        tag \in ProtocolTags,
        ser \in {{}, {mutate_type_name(PrimShapes[i].name) : i \in DOMAIN PrimShapes}},
        de \in {{}, {mutate_type_name(PrimShapes[i].name) : i \in DOMAIN PrimShapes}} }

Inputs == GraphInputs \cup StructInputs \cup ProtocolInputs

-----------------------------------------------------------------------------
(* The run of generate_source *)

NoGenerator == "none"

Init ==
    /\ \E input \in Inputs :
          /\ service = input.service
          /\ type_filter = input.type_filter
    /\ pc = "generate_source"
    /\ protocol_generator = NoGenerator
    /\ error_type_generator = NoGenerator
    /\ sink = <<>>
    /\ idx = 1
    /\ memo = <<>>

\* generate_source, lines 69-80.
GenerateSource ==
    /\ pc = "generate_source"
    /\ LET selected == select_generators(service.protocol)
       IN  IF IsNone(selected)
           THEN /\ pc' = "unknown_protocol"
                /\ UNCHANGED <<protocol_generator, error_type_generator>>
           ELSE /\ pc' = "header"
                /\ protocol_generator' = Unwrap(selected).protocol_generator
                /\ error_type_generator' = Unwrap(selected).error_type_generator
    /\ UNCHANGED <<service, type_filter, sink, idx, memo>>

\* One write of `generate` or `generate_client` that appends `item`.
Write(from, item, to) ==
    /\ pc = from
    /\ sink' = Append(sink, item)
    /\ pc' = to
    /\ UNCHANGED <<service, type_filter, protocol_generator, error_type_generator,
                   idx, memo>>

\* Lines 103-129: the warning header and the common imports.
WriteHeader == Write("header", [kind |-> "header"], "prelude")

\* Line 131.
GeneratePrelude ==
    Write("prelude", [kind |-> "prelude", generator |-> protocol_generator], "types")

\* generate_types, lines 356-435: one iteration of the loop over the shapes.
GenerateTypesShape ==
    /\ pc = "types"
    /\ idx <= Len(service.shapes)
    /\ \E written \in {shape_items(<<>>, service, type_filter, protocol_generator,
                                    service.shapes[idx])} :
           /\ sink' = sink \o written.items
           /\ IF IsSome(written.abort)
              THEN /\ pc' = Unwrap(written.abort)
                   /\ idx' = idx
              ELSE /\ pc' = pc
                   /\ idx' = idx + 1
    /\ memo' = <<>>
    /\ UNCHANGED <<service, type_filter, protocol_generator, error_type_generator>>

\* generate_types, line 436: the loop is over.
GenerateTypesDone ==
    /\ pc = "types"
    /\ idx > Len(service.shapes)
    /\ pc' = "error_types"
    /\ UNCHANGED <<service, type_filter, protocol_generator, error_type_generator,
                   sink, idx, memo>>

\* Lines 133-134.
GenerateErrorTypes ==
    Write("error_types", [kind |-> "error_types", generator |-> error_type_generator],
          "trait")

\* generate_client, lines 150-155.
WriteTrait == Write("trait", [kind |-> "trait"], "method_signatures")

\* Lines 157-158.
GenerateMethodSignatures ==
    Write("method_signatures",
          [kind |-> "method_signatures", generator |-> protocol_generator],
          "trait_close")

\* WriteTraitClose with the closing brace of the trait written after the
\* client type instead of before it.
WriteTraitCloseLate ==
    /\ pc = "trait_close"
    /\ sink' = sink \o <<[kind |-> "client"], [kind |-> "trait_close"]>>
    /\ pc' = "method_impls"
    /\ UNCHANGED <<service, type_filter, protocol_generator, error_type_generator,
                   idx, memo>>

\* Line 160.
WriteTraitClose == Write("trait_close", [kind |-> "trait_close"], "client")

\* Lines 162-185: the client struct, its constructor and the head of the impl.
WriteClient == Write("client", [kind |-> "client"], "method_impls")

\* Lines 186-187.
GenerateMethodImpls ==
    Write("method_impls", [kind |-> "method_impls", generator |-> protocol_generator],
          "impl_close")

\* Line 188.
WriteImplClose == Write("impl_close", [kind |-> "impl_close"], "tests")

\* Line 136: generate_tests is handed the writer; it appends a test module or
\* nothing.
GenerateTests ==
    /\ pc = "tests"
    /\ \E wrote \in BOOLEAN :
          sink' = IF wrote THEN Append(sink, [kind |-> "tests"]) ELSE sink
    /\ pc' = "done"
    /\ UNCHANGED <<service, type_filter, protocol_generator, error_type_generator,
                   idx, memo>>

WritingSteps ==
    {"header", "prelude", "error_types", "trait", "method_signatures",
     "trait_close", "client", "method_impls", "impl_close", "tests"}

\* A write to the sink fails: `?` returns the error and the run is over.
WriteFails ==
    /\ pc \in WritingSteps
    /\ pc' = "io_error"
    /\ UNCHANGED <<service, type_filter, protocol_generator, error_type_generator,
                   sink, idx, memo>>

Next ==
    \/ GenerateSource
    \/ WriteHeader
    \/ GeneratePrelude
    \/ GenerateTypesShape
    \/ GenerateTypesDone
    \/ GenerateErrorTypes
    \/ WriteTrait
    \/ GenerateMethodSignatures
    \/ WriteTraitClose
    \/ WriteClient
    \/ GenerateMethodImpls
    \/ WriteImplClose
    \/ GenerateTests
    \/ WriteFails

Spec == Init /\ [][Next]_vars


-----------------------------------------------------------------------------
(* Vocabulary of the properties *)

Classifications == {Owned, Borrowed}

ShapeNamed(name) == Unwrap(get_shape(service, name))

\* get_rust_type of the shape `name` as a non-stream occurrence, called as
\* generate_struct_fields calls it.
ResolveShape(name) ==
    get_rust_type(<<>>, service, name, ShapeNamed(name), FALSE,
                  timestamp_type(protocol_generator), 1)

\* The entries of service.shapes() of one kind.
EntriesOf(shape_type) ==
    {service.shapes[i] : i \in {j \in DOMAIN service.shapes :
                                   service.shapes[j].shape.shape_type = shape_type}}

\* The names a shape refers to.
References(shape) ==
    {Unwrap(o).shape : o \in {x \in {shape.member, shape.key, shape.value} : IsSome(x)}}
    \cup (IF IsSome(shape.members)
          THEN {Unwrap(shape.members)[i].member.shape : i \in DOMAIN Unwrap(shape.members)}
          ELSE {})

RECURSIVE ReachableFrom(_, _)
\* The names reachable from `names` by following references.
ReachableFrom(names, seen) ==
    LET next == UNION {References(ShapeNamed(n)) : n \in names} \ (seen \cup names)
    IN  IF next = {} THEN seen \cup names
        ELSE ReachableFrom(next, seen \cup names)

\* No shape of the service refers to itself, directly or through other shapes.
Acyclic ==
    \A i \in DOMAIN service.shapes :
        service.shapes[i].name
            \notin ReachableFrom(References(service.shapes[i].shape), {})

\* The pieces of one kind written to the sink so far.
Written(kind) == {sink[k] : k \in {j \in DOMAIN sink : sink[j].kind = kind}}

\* The struct declaration written for the shape `name`, if any.
DeclarationsOf(name) ==
    {item \in Written("struct") : item.name = mutate_type_name(name)}

HasLifetime(item) == item.lifetime = <<"<'a>">>

\* The run is inside generate_types, where the resolver is called.
InGenerateTypes == pc = "types"

\* Over an acyclic shape graph the stack of the model is never exhausted: a
\* StackOverflow of the model stands for a recursion that does not end.
AcyclicNeverOverflows ==
    Acyclic =>
        /\ pc # StackOverflow
        /\ \A i \in DOMAIN service.shapes :
              /\ ResolveShape(service.shapes[i].name).ownership \in Classifications
              /\ get_shape_ownership(service, service.shapes[i].shape, 1)
                     \in Classifications

-----------------------------------------------------------------------------
(* C1 *)

\* A Map of the service whose key and value both resolve.
ResolvedMaps ==
    {e \in EntriesOf("Map") :
        /\ ResolveShape(key_type(e.shape)).ownership \in Classifications
        /\ ResolveShape(value_type(e.shape)).ownership \in Classifications}

\* C1 as stated: for every Map resolved as a non-stream occurrence, a Borrowed
\* key makes the Map Borrowed, and an Owned key with a Borrowed value makes the
\* Map Owned.
C1_ValueBorrowingDoesNotPropagate ==
    InGenerateTypes => \A e \in ResolvedMaps :
        LET key == ResolveShape(key_type(e.shape)).ownership
            value == ResolveShape(value_type(e.shape)).ownership
            map == ResolveShape(e.name).ownership
        IN  /\ key = Borrowed => map = Borrowed
            /\ (key = Owned /\ value = Borrowed) => map = Owned

\* C1 amended: for every Map resolved as a non-stream occurrence, a Borrowed
\* key makes the Map Borrowed, and with an Owned key the Map has the value's
\* classification (an Owned key with a Borrowed value gives a Borrowed Map).
C1_MapOwnership ==
    InGenerateTypes => \A e \in ResolvedMaps :
        LET key == ResolveShape(key_type(e.shape)).ownership
            value == ResolveShape(value_type(e.shape)).ownership
            map == ResolveShape(e.name).ownership
        IN  /\ key = Borrowed => map = Borrowed
            /\ key = Owned => map = value

\* A struct has been emitted whose field is a map from an Owned key to a
\* Borrowed value, and the struct carries the lifetime the field asked for.
C1_Witness ==
    \E item \in Written("struct") :
        /\ HasLifetime(item)
        /\ \E f \in DOMAIN item.fields :
              item.fields[f].type =
                  <<"::std::collections::HashMap<", "i64", ", ", "&'a str", ">">>

-----------------------------------------------------------------------------
(* C2 *)

\* C2: for every List resolved as a non-stream occurrence, the classification
\* get_rust_type returns is the one it returns for the list's element shape.
C2_ListInheritsElement ==
    InGenerateTypes => \A e \in EntriesOf("List") :
        LET element == ResolveShape(member_type(e.shape)).ownership
            list == ResolveShape(e.name).ownership
        IN  (element \in Classifications /\ list \in Classifications)
                => list = element

-----------------------------------------------------------------------------
(* C3 *)

\* C3: over an acyclic shape graph, the declaration emitted for a structure
\* that is no exception and has at least one member carries <'a> if and only
\* if a reference to the structure resolves to Borrowed.
C3_DeclarationAgreesWithReferences ==
    Acyclic =>
        \A e \in EntriesOf("Structure") :
            (~e.shape.exception /\ ~is_unit_struct(e.shape)) =>
                \A item \in DeclarationsOf(e.name) :
                    HasLifetime(item) <=> ResolveShape(e.name).ownership = Borrowed

-----------------------------------------------------------------------------
(* C4 *)

\* C4: resolving the ownership of any shape of a service whose references all
\* resolve returns a classification, and no run dies in the resolver, also
\* when a structure refers to itself directly or through other shapes.
C4_ResolutionTerminates ==
    /\ pc # StackOverflow
    /\ InGenerateTypes => \A i \in DOMAIN service.shapes :
          /\ ResolveShape(service.shapes[i].name).ownership \in Classifications
          /\ get_shape_ownership(service, service.shapes[i].shape, 1)
                 \in Classifications


-----------------------------------------------------------------------------
(* C5 *)

JsonTags == {"json", "rest-json"}

XmlTags == {"query", "ec2", "rest-xml"}

\* C5: the error-taxonomy backend is a function of the protocol tag alone:
\* JSON-style for "json" and "rest-json", XML-style for "query", "ec2" and
\* "rest-xml", in the choice made and in the taxonomy written; under any other
\* tag the run aborts with nothing written to the sink.
C5_BackendByProtocol ==
    /\ service.protocol \in JsonTags =>
          /\ pc # "generate_source" => error_type_generator = "JsonErrorTypes"
          /\ \A item \in Written("error_types") : item.generator = "JsonErrorTypes"
          /\ pc # "unknown_protocol"
    /\ service.protocol \in XmlTags =>
          /\ pc # "generate_source" => error_type_generator = "XmlErrorTypes"
          /\ \A item \in Written("error_types") : item.generator = "XmlErrorTypes"
          /\ pc # "unknown_protocol"
    /\ service.protocol \notin JsonTags \cup XmlTags =>
          /\ pc \in {"generate_source", "unknown_protocol"}
          /\ sink = <<>>

\* A REST+JSON run has written its error taxonomy, with the JSON-style backend.
C5_Witness ==
    /\ service.protocol = "rest-json"
    /\ pc = "done"
    /\ [kind |-> "error_types", generator |-> "JsonErrorTypes"] \in Written("error_types")

-----------------------------------------------------------------------------
(* C6 *)

\* The section of the output module a written piece belongs to, by its place
\* in the fixed order; 8 is the test module, which is none of the seven.
SectionOf(item) ==
    CASE item.kind = "header" -> 1
      [] item.kind = "prelude" -> 2
      [] item.kind \in {"doc", "struct", "streaming_wrapper",
                        "deserializer", "serializer"} -> 3
      [] item.kind = "error_types" -> 4
      [] item.kind \in {"trait", "method_signatures", "trait_close"} -> 5
      [] item.kind = "client" -> 6
      [] item.kind \in {"method_impls", "impl_close"} -> 7
      [] item.kind = "tests" -> 8

\* The pieces every run writes exactly once.
SinglePieces ==
    {"header", "prelude", "error_types", "trait", "method_signatures",
     "trait_close", "client", "method_impls", "impl_close"}

Occurrences(kind) == Cardinality({k \in DOMAIN sink : sink[k].kind = kind})

\* No piece of a later section precedes a piece of an earlier one, and inside
\* the interface and the implementation the pieces are in their order.
SectionsInOrder ==
    /\ \A j, k \in DOMAIN sink : j < k => SectionOf(sink[j]) <= SectionOf(sink[k])
    /\ \A j, k \in DOMAIN sink :
          (sink[j].kind = "trait" /\ sink[k].kind = "method_signatures") => j < k
    /\ \A j, k \in DOMAIN sink :
          (sink[j].kind = "method_signatures" /\ sink[k].kind = "trait_close") => j < k
    /\ \A j, k \in DOMAIN sink :
          (sink[j].kind = "method_impls" /\ sink[k].kind = "impl_close") => j < k

\* C6 as stated: a completed run has written the seven sections in their
\* order, each once, and nothing else.
C6_SevenSectionsOnly ==
    pc = "done" =>
        /\ SectionsInOrder
        /\ \A kind \in SinglePieces : Occurrences(kind) = 1
        /\ \A k \in DOMAIN sink : SectionOf(sink[k]) <= 7

\* C6 amended: a completed run has written the seven sections in their order,
\* each once; the only other thing in the sink is what generate_tests, called
\* last with the same sink, appended after the implementation.
C6_SectionsInOrder ==
    pc = "done" =>
        /\ SectionsInOrder
        /\ \A kind \in SinglePieces : Occurrences(kind) = 1
        /\ Occurrences("tests") <= 1

\* A run is complete, its sink ending with the implementation's closing brace
\* after at least one struct of the type definitions.
C6_Witness ==
    /\ pc = "done"
    /\ sink[Len(sink)].kind = "impl_close"
    /\ Written("struct") # {}


-----------------------------------------------------------------------------
(* Vocabulary of the properties of emitted structs *)

\* The member collection of a structure, empty when it has none.
MembersOf(shape) == IF IsSome(shape.members) THEN Unwrap(shape.members) ELSE <<>>

\* The members that are not flagged deprecated, in their order.
NonDeprecated(members) == SelectSeq(members, LAMBDA e : e.member.deprecated # <<TRUE>>)

RequiredSet(shape) == IF IsSome(shape.required) THEN Unwrap(shape.required) ELSE {}

IsSuffix(suffix, s) ==
    /\ Len(suffix) <= Len(s)
    /\ SubSeq(s, Len(s) - Len(suffix) + 1, Len(s)) = suffix

\* The structures of the service with the declarations written for them.
EmittedStructs ==
    {x \in [entry : EntriesOf("Structure"), item : Written("struct")] :
        x.item \in DeclarationsOf(x.entry.name)}

\* The positions of the non-deprecated members of a structure.
LiveMembers(shape) ==
    {i \in DOMAIN MembersOf(shape) : MembersOf(shape)[i].member.deprecated # <<TRUE>>}

\* The field a declaration with a field list holds for the i-th member, which
\* is not deprecated: fields are in the order of the members.
FieldOf(item, shape, i) ==
    item.fields[Len(NonDeprecated(SubSeq(MembersOf(shape), 1, i)))]

-----------------------------------------------------------------------------
(* C7 *)

\* C7: the declaration of a structure with a non-empty member collection has
\* one field per non-deprecated member, in order, none for a deprecated one,
\* and a field is mandatory exactly when its member is in the required set.
C7_FieldsFollowMembers ==
    \A x \in EmittedStructs :
        LET shape == x.entry.shape
            live == NonDeprecated(MembersOf(shape))
        IN  Len(MembersOf(shape)) > 0 =>
                /\ Len(x.item.fields) = Len(live)
                /\ \A j \in DOMAIN live :
                      /\ IsSuffix(generate_field_name(live[j].name),
                                  x.item.fields[j].name)
                      /\ x.item.fields[j].optional
                             <=> live[j].name \notin RequiredSet(shape)

\* The struct of members {Name: String, Size: Integer} with required set
\* {Name} has been emitted: a mandatory `name` and an optional `size`.
C7_Witness ==
    \E x \in EmittedStructs :
        /\ RequiredSet(x.entry.shape) = {N_Name}
        /\ Len(x.item.fields) = 2
        /\ x.item.fields[1].name = <<"n","a","m","e">>
        /\ ~x.item.fields[1].optional
        /\ x.item.fields[2].name = <<"s","i","z","e">>
        /\ x.item.fields[2].optional
        /\ x.item.fields[2].type = <<"i64">>

-----------------------------------------------------------------------------
(* C8 *)

\* C8: a stream-flagged member of a structure that is the input shape of an
\* operation gets the type of the general algorithm; in a structure that is
\* the input of no operation it gets the streaming wrapper type, and the
\* stream occurrence is Owned whatever the member's shape.
C8_StreamFieldByInputShape ==
    \A x \in EmittedStructs :
        \A i \in LiveMembers(x.entry.shape) :
            LET member == MembersOf(x.entry.shape)[i].member
            IN  member.streaming = <<TRUE>> =>
                    IF \E o \in DOMAIN service.operations :
                           service.operations[o].input = <<[shape |-> x.entry.name]>>
                    THEN FieldOf(x.item, x.entry.shape, i).type
                             = ResolveShape(member.shape).type
                    ELSE /\ FieldOf(x.item, x.entry.shape, i).type
                                = STR_Streaming \o member.shape
                         /\ get_rust_type(<<>>, service, member.shape,
                                          ShapeNamed(member.shape), TRUE,
                                          timestamp_type(protocol_generator), 1)
                                .ownership = Owned

-----------------------------------------------------------------------------
(* C9 *)

\* C9: a structure with no non-deprecated member (no member collection, an
\* empty one, or only deprecated members) is emitted as a unit type.
C9_NoLiveMemberGivesUnit ==
    \A x \in EmittedStructs :
        Len(NonDeprecated(MembersOf(x.entry.shape))) = 0 => x.item.form = "unit"

-----------------------------------------------------------------------------
(* C10 *)

\* C10: the optional field of a member whose name sanitizes to "type" is named
\* aws_ followed by the name generate_field_name gives, which is not the name
\* an ordinary optional field gets.
C10_TypeFieldIsPrefixed ==
    \A x \in EmittedStructs :
        \A i \in LiveMembers(x.entry.shape) :
            LET name == MembersOf(x.entry.shape)[i].name
            IN  (to_snake_case(name) = STR_type /\ name \notin RequiredSet(x.entry.shape))
                    => /\ FieldOf(x.item, x.entry.shape, i).name
                              = STR_aws_ \o generate_field_name(name)
                       /\ FieldOf(x.item, x.entry.shape, i).name
                              # generate_field_name(name)

-----------------------------------------------------------------------------
(* C11 *)

\* The fields of the written declarations that get_rust_type resolved as a
\* stream occurrence (lines 246-248): the member is stream-flagged and the
\* field's type is the wrapper name built from the member's raw shape name.
StreamFields ==
    UNION {{[item |-> x.item, member |-> MembersOf(x.entry.shape)[i].member] :
               i \in {j \in LiveMembers(x.entry.shape) :
                        /\ MembersOf(x.entry.shape)[j].member.streaming = <<TRUE>>
                        /\ FieldOf(x.item, x.entry.shape, j).type
                              = mutate_type_name_for_streaming(
                                    MembersOf(x.entry.shape)[j].member.shape)}} :
           x \in EmittedStructs}

\* C11: in a completed run, every field emitted with a streaming wrapper type
\* name has, among the pieces generate_types wrote, a streaming wrapper type
\* definition with exactly that name, whatever the shape's name is.
C11_StreamFieldHasWrapperDefinition ==
    pc = "done" =>
        \A f \in StreamFields :
            \E w \in Written("streaming_wrapper") :
                w.name = mutate_type_name_for_streaming(f.member.shape)

\* The same for the shapes whose name the type-name sanitizer keeps.
StreamFieldOfKeptNameHasWrapperDefinition ==
    pc = "done" =>
        \A f \in StreamFields :
            mutate_type_name(f.member.shape) = f.member.shape =>
                \E w \in Written("streaming_wrapper") :
                    w.name = mutate_type_name_for_streaming(f.member.shape)

\* A completed run in which a field is a stream occurrence of a shape whose
\* name the sanitizer keeps, and one of a shape whose name it rewrites.
StreamFieldOfKeptNameWritten ==
    /\ pc = "done"
    /\ \E f \in StreamFields : mutate_type_name(f.member.shape) = f.member.shape

StreamFieldOfRewrittenNameWritten ==
    /\ pc = "done"
    /\ \E f \in StreamFields : mutate_type_name(f.member.shape) # f.member.shape

=============================================================================
